---- MODULE Spec2Model ----
(***************************************************************************)
(* Model of the MDS open file table (src/src/mds/OpenFileTable.cc): the    *)
(* reference-counted anchor map, the dirty set, the commit planner with    *)
(* its header commit marker, the paginated loader, and the backing omap    *)
(* object the commits are written to.                                      *)
(***************************************************************************)
EXTENDS Integers, Sequences, FiniteSets, TLC

\* ------------------------------------------------------------------ bounds

\* Inode numbers are 1..NumInos; the last one is a regular file, the others
\* are directories.
NumInos == 4
\* Dentry names are 1..NumNames (one-character names); 0 is the empty name.
NumNames == 1
\* Highest log sequence number a commit is called with.
MaxSeq == 2
\* Highest number of commits in flight at once.
MaxPending == 2
\* Highest number of contexts waiting for the load.
MaxWaiters == 1
\* Highest number of values the object store returns in one read.
MaxPage == 2
\* Highest number of restarts of the MDS in a run.
MaxRestarts == 1
\* MDS ranks are 0..MaxRank.
MaxRank == 0

\* ------------------------------------------------------- program constants

\* enum { DIRTY_NEW = 0x1 } of OpenFileTable.h, as used at line 52.
DIRTY_NEW == 1
\* sizeof(__u32), the length prefix counted at lines 262 and 268.
SizeofU32 == 4
\* mds->mdcache->max_dir_commit_size (a configured value, read at line 192),
\* scaled down so that a commit of a few anchors is split.
max_write_size == 64
\* MDS_RANK_NONE, the auth of an anchor nobody resolved (line 359).
MDS_RANK_NONE == -1

\* enum { DIR_INODES = 1, FILE_INODES = 2, DONE = 3 } of OpenFileTable.h, the
\* values of prefetch_state compared at lines 455-470; 0 before prefetch.
DIR_INODES == 1
FILE_INODES == 2
DONE == 3
\* MAX_MDS, NUM_STRAY, MDS_INO_MDSDIR_OFFSET and MDS_INO_STRAY_OFFSET of
\* mdstypes.h, behind the macros of lines 499-504.
MAX_MDS == 256
NUM_STRAY == 10
MDS_INO_MDSDIR_OFFSET == 256
MDS_INO_STRAY_OFFSET == 1536
\* -ENOENT, a negative result of open_ino (r >= 0 is tested at line 455).
ENOENT == -2

Inos == 1..NumInos
Names == 1..NumNames
NoIno == 0
NoName == 0

is_dir(i) == i < NumInos
d_type(i) == IF is_dir(i) THEN "DT_DIR" ELSE "DT_REG"

\* ------------------------------------------------------------------ state

VARIABLES
  parent,              \* in->get_parent_dn()->get_dir()->get_inode(), 0: no parent dentry
  dname,               \* in->get_parent_dn()->get_name(), 0: none
  direct,              \* inodes the cache has add_inode'd and not yet remove_inode'd
  state_tracked,       \* inodes with CInode::STATE_TRACKEDBYOFT
  anchor_map,          \* ino -> Anchor
  dirty_items,         \* ino -> flags
  loaded_anchor_map,   \* ino -> Anchor, filled by load
  committing_log_seq,
  committed_log_seq,
  num_pending_commit,
  clear_on_commit,
  load_done,
  waiting_for_load,    \* sequence of contexts waiting for the load
  load_io,             \* the read in flight: <<>> or <<[first, after]>>
  load_called,         \* load() has been called on this table
  pending,             \* commits whose gather has sub-operations outstanding
  finisher,            \* completed gathers queued on mds->finisher
  obj_header,          \* omap header of the object, -1: none
  obj_omap,            \* omap of the object: key -> encoded anchor
  failed,              \* "" or the assertion / fatal error that stopped the MDS
  prefetch_state,      \* 0, DIR_INODES, FILE_INODES or DONE
  num_opening_inodes,
  waiting_for_prefetch, \* sequence of contexts waiting for the prefetch
  opening,             \* inodes mdcache->open_ino has not yet answered for
  cached,              \* inodes in the cache the table does not track
  last_journaled,      \* in->last_journaled of every inode
  hist                 \* history of the run, read by the properties only

vars == <<parent, dname, direct, state_tracked, anchor_map, dirty_items,
          loaded_anchor_map, committing_log_seq, committed_log_seq,
          num_pending_commit, clear_on_commit, load_done, waiting_for_load,
          load_io, load_called, pending, finisher, obj_header, obj_omap,
          failed, prefetch_state, num_opening_inodes, waiting_for_prefetch,
          opening, cached, last_journaled, hist>>

\* ---------------------------------------------------------------- helpers

Put(f, k, v) == [x \in DOMAIN f \cup {k} |-> IF x = k THEN v ELSE f[x]]
Erase(f, k) == [x \in DOMAIN f \ {k} |-> f[x]]
EmptyMap == [x \in {} |-> 0]

\* std::map::emplace: inserts only when the key is absent.
Emplace(f, k, v) == IF k \in DOMAIN f THEN f ELSE Put(f, k, v)

Anchor(ino, dirino, name, type, nref) ==
  [ino |-> ino, dirino |-> dirino, d_name |-> name, d_type |-> type,
   nref |-> nref, auth |-> MDS_RANK_NONE]

\* The table fields get_ref and put_ref work on, with the first failed
\* assertion ("" when none failed).
Tab(am, di, st, err) == [am |-> am, di |-> di, st |-> st, err |-> err]

Fail(t, what) == IF t.err = "" THEN [t EXCEPT !.err = what] ELSE t

\* ------------------------------------------------------------- ref engine

\* get_ref that anchors the inode and does not go on to its parent.
get_ref_no_climb(t, in) ==
  IF in \in DOMAIN t.am
  THEN [t EXCEPT !.am[in].nref = @ + 1]
  ELSE [t EXCEPT !.am = Put(@, in, Anchor(in, parent[in], dname[in], d_type(in), 1)),
                 !.st = @ \cup {in},
                 !.di = Emplace(@, in, DIRTY_NEW)]

\* get_ref(in), lines 32-56.
RECURSIVE get_ref(_, _)
get_ref(t, in) ==
  IF t.err # "" THEN t
  ELSE IF in \in DOMAIN t.am
  THEN IF in \notin t.st THEN Fail(t, "get_ref: STATE_TRACKEDBYOFT")
       ELSE IF ~(t.am[in].nref > 0) THEN Fail(t, "get_ref: nref > 0")
       ELSE [t EXCEPT !.am[in].nref = @ + 1]
  ELSE LET pin == parent[in]
           t2 == [t EXCEPT !.am = Put(@, in, Anchor(in, pin, dname[in], d_type(in), 1)),
                           !.st = @ \cup {in},
                           !.di = Emplace(@, in, DIRTY_NEW)]
       IN IF pin # NoIno THEN get_ref(t2, pin) ELSE t2

\* The erased anchor marked dirty with a creation never cancelled.
put_ref_dirty_keeps_new(di, ino) == Emplace(di, ino, 0)

\* The erased anchor's dirty entry dropped whatever its flags.
put_ref_dirty_drops_any(di, ino) ==
  IF ino \in DOMAIN di THEN Erase(di, ino) ELSE Put(di, ino, 0)

\* The dirty set after an anchor is erased, lines 84-86: a creation that was
\* never committed cancels.
put_ref_dirty(di, ino) ==
  IF ino \in DOMAIN di
  THEN IF di[ino] = DIRTY_NEW THEN Erase(di, ino) ELSE di
  ELSE Put(di, ino, 0)

\* put_ref(in), lines 58-90.
RECURSIVE put_ref(_, _)
put_ref(t, in) ==
  IF t.err # "" THEN t
  ELSE IF in \notin t.st THEN Fail(t, "put_ref: STATE_TRACKEDBYOFT")
  ELSE IF in \notin DOMAIN t.am THEN Fail(t, "put_ref: anchor exists")
  ELSE IF ~(t.am[in].nref > 0) THEN Fail(t, "put_ref: nref > 0")
  ELSE IF t.am[in].nref > 1 THEN [t EXCEPT !.am[in].nref = @ - 1]
  ELSE LET pin == parent[in]
       IN IF t.am[in].dirino # pin THEN Fail(t, "put_ref: dirino")
          ELSE IF t.am[in].d_name # dname[in] THEN Fail(t, "put_ref: d_name")
          ELSE LET t2 == [t EXCEPT !.am = Erase(@, in),
                                   !.st = @ \ {in},
                                   !.di = put_ref_dirty(@, in)]
               IN IF pin # NoIno THEN put_ref(t2, pin) ELSE t2

\* ---------------------------------------------------------- key and value

\* snprintf(key, "%llx", ino): the hexadecimal digits, most significant first.
RECURSIVE HexKey(_)
HexKey(n) == IF n < 16 THEN <<n>> ELSE Append(HexKey(n \div 16), n % 16)

\* sscanf(key, "%llx", &ino)
RECURSIVE ParseHex(_)
ParseHex(k) ==
  IF Len(k) = 0 THEN 0
  ELSE 16 * ParseHex(SubSeq(k, 1, Len(k) - 1)) + k[Len(k)]

\* encode(anchor, bl): ino, dirino, d_name, d_type; nref and auth are not
\* written.
EncodeAnchor(a) ==
  [ino |-> a.ino, dirino |-> a.dirino, d_name |-> a.d_name, d_type |-> a.d_type]

\* decode(anchor, p) into a default-constructed Anchor (nref = 0), then
\* anchor.auth = MDS_RANK_NONE.
DecodeAnchor(v) ==
  [ino |-> v.ino, dirino |-> v.dirino, d_name |-> v.d_name, d_type |-> v.d_type,
   nref |-> 0, auth |-> MDS_RANK_NONE]

\* bl.length() of an encoded anchor: the versioned-struct header, two inode
\* numbers, the length-prefixed name and the type byte.
EncodedLen(a) == 6 + 8 + 8 + SizeofU32 + (IF a.d_name = NoName THEN 0 ELSE 1) + 1

\* Anchor::operator==
AnchorEq(l, r) ==
  /\ l.ino = r.ino
  /\ l.dirino = r.dirino
  /\ l.d_name = r.d_name
  /\ l.d_type = r.d_type

\* ----------------------------------------------------------------- commit

NoHeader == -1

Min(S) == CHOOSE x \in S : \A y \in S : x <= y

\* The locals of commit() that commit_func captures by reference, with the
\* loaded map and clear_on_commit it changes, and the sub-operations handed
\* to the objecter so far.
\* commit_func(last), lines 210-243.
commit_func(L, log_seq, last) ==
  LET op == [clear |-> L.clear_on_commit,
             header |-> IF last THEN log_seq
                        ELSE IF L.first THEN 0 ELSE NoHeader,
             set |-> L.to_update,
             rm |-> L.to_remove]
  IN [L EXCEPT !.clear_on_commit = FALSE,
               !.ops = Append(@, op),
               !.first = FALSE,
               !.write_size = 0,
               !.to_update = EmptyMap,
               !.to_remove = {}]

\* The iteration with the removal of an erased anchor's key left out.
commit_dirty_item_no_rm(L, log_seq, first_commit, ino) ==
  IF ino \in DOMAIN anchor_map
  THEN [L EXCEPT !.to_update = Put(@, HexKey(ino), EncodeAnchor(anchor_map[ino]))]
  ELSE L

\* The iteration that writes a dirty anchor also when the loaded map holds
\* an equal one.
commit_dirty_item_no_skip(L, log_seq, first_commit, ino) ==
  LET inmap == ino \in DOMAIN anchor_map
      inloaded == first_commit /\ ino \in DOMAIN L.loaded
      L1 == IF inloaded THEN [L EXCEPT !.loaded = Erase(@, ino)] ELSE L
      key == HexKey(ino)
      L2 == IF inmap
            THEN [L1 EXCEPT
                    !.write_size = @ + Len(key) + SizeofU32
                                     + EncodedLen(anchor_map[ino]) + SizeofU32,
                    !.to_update = Put(@, key, EncodeAnchor(anchor_map[ino]))]
            ELSE [L1 EXCEPT
                    !.write_size = @ + Len(key) + SizeofU32,
                    !.to_remove = @ \cup {key}]
  IN IF L2.write_size >= max_write_size
     THEN commit_func(L2, log_seq, FALSE)
     ELSE L2

\* One iteration of the loop over dirty_items, lines 248-278.
commit_dirty_item(L, log_seq, first_commit, ino) ==
  LET inmap == ino \in DOMAIN anchor_map
      inloaded == first_commit /\ ino \in DOMAIN L.loaded
      same == inloaded /\ inmap /\ AnchorEq(anchor_map[ino], L.loaded[ino])
      L1 == IF inloaded THEN [L EXCEPT !.loaded = Erase(@, ino)] ELSE L
      key == HexKey(ino)
      L2 == IF inmap
            THEN [L1 EXCEPT
                    !.write_size = @ + Len(key) + SizeofU32
                                     + EncodedLen(anchor_map[ino]) + SizeofU32,
                    !.to_update = Put(@, key, EncodeAnchor(anchor_map[ino]))]
            ELSE [L1 EXCEPT
                    !.write_size = @ + Len(key) + SizeofU32,
                    !.to_remove = @ \cup {key}]
  IN IF same THEN L1
     ELSE IF L2.write_size >= max_write_size
          THEN commit_func(L2, log_seq, FALSE)
          ELSE L2

\* The loop over dirty_items left after its first iteration.
commit_dirty_first_only(L, log_seq, first_commit, todo) ==
  IF todo = {} THEN L
  ELSE commit_dirty_item(L, log_seq, first_commit, Min(todo))

\* for (auto& it : dirty_items), in the order of the std::map.
RECURSIVE commit_dirty(_, _, _, _)
commit_dirty(L, log_seq, first_commit, todo) ==
  IF todo = {} THEN L
  ELSE commit_dirty(commit_dirty_item(L, log_seq, first_commit, Min(todo)),
                    log_seq, first_commit, todo \ {Min(todo)})

\* One iteration of the loop over what is left of loaded_anchor_map,
\* lines 282-291.
commit_loaded_item(L, log_seq, ino) ==
  LET key == HexKey(ino)
      L2 == [L EXCEPT !.write_size = @ + Len(key) + SizeofU32,
                      !.to_remove = @ \cup {key}]
  IN IF L2.write_size >= max_write_size
     THEN commit_func(L2, log_seq, FALSE)
     ELSE L2

RECURSIVE commit_loaded(_, _, _)
commit_loaded(L, log_seq, todo) ==
  IF todo = {} THEN L
  ELSE commit_loaded(commit_loaded_item(L, log_seq, Min(todo)),
                     log_seq, todo \ {Min(todo)})

\* The body of commit() from line 205 on: the sub-operations it submits and
\* the loaded map and clear_on_commit it leaves.
commit_plan(log_seq) ==
  LET L0 == [first |-> TRUE, write_size |-> 0, to_update |-> EmptyMap,
             to_remove |-> {}, ops |-> <<>>,
             clear_on_commit |-> clear_on_commit,
             loaded |-> loaded_anchor_map]
      first_commit == DOMAIN loaded_anchor_map # {}
      L1 == commit_dirty(L0, log_seq, first_commit, DOMAIN dirty_items)
      L2 == IF first_commit
            THEN [commit_loaded(L1, log_seq, DOMAIN L1.loaded)
                    EXCEPT !.loaded = EmptyMap]
            ELSE L1
  IN commit_func(L2, log_seq, TRUE)

\* ----------------------------------------------------------- object store

\* One sub-operation applied to the object, atomically and in the order its
\* parts were added: omap_clear, omap_set_header, omap_set, omap_rm_keys.
ApplyOmap(omap, op) ==
  LET m1 == IF op.clear THEN EmptyMap ELSE omap
      m2 == [k \in DOMAIN m1 \cup DOMAIN op.set |->
               IF k \in DOMAIN op.set THEN op.set[k] ELSE m1[k]]
  IN [k \in DOMAIN m2 \ op.rm |-> m2[k]]

ApplyHeader(header, op) ==
  IF op.header # NoHeader THEN op.header
  ELSE IF op.clear THEN NoHeader ELSE header

\* Lexicographic order of the omap keys.
RECURSIVE KeyLess(_, _)
KeyLess(a, b) ==
  IF Len(b) = 0 THEN FALSE
  ELSE IF Len(a) = 0 THEN TRUE
  ELSE IF a[1] # b[1] THEN a[1] < b[1]
  ELSE KeyLess(Tail(a), Tail(b))

\* omap_get_vals(start_after, "", max): the keys after start_after, and of
\* these the first n.
KeysAfter(omap, after) == {k \in DOMAIN omap : KeyLess(after, k)}

FirstKeys(keys, n) ==
  {k \in keys : Cardinality({j \in keys : KeyLess(j, k)}) < n}

LastKey(keys) == CHOOSE k \in keys : \A j \in keys : j = k \/ KeyLess(j, k)

\* ------------------------------------------------------------------- Init

\* The table after construction, the cache empty of tracked inodes.
InitTable ==
  /\ parent = [i \in Inos |-> NoIno]
  /\ dname = [i \in Inos |-> NoName]
  /\ direct = {}
  /\ state_tracked = {}
  /\ anchor_map = EmptyMap
  /\ dirty_items = EmptyMap
  /\ loaded_anchor_map = EmptyMap
  /\ committing_log_seq = 0
  /\ committed_log_seq = 0
  /\ num_pending_commit = 0
  /\ clear_on_commit = FALSE
  /\ load_done = FALSE
  /\ waiting_for_load = <<>>
  /\ load_io = <<>>
  /\ load_called = FALSE
  /\ pending = <<>>
  /\ finisher = <<>>
  /\ failed = ""
  /\ prefetch_state = 0
  /\ num_opening_inodes = 0
  /\ waiting_for_prefetch = <<>>
  /\ opening = {}
  /\ last_journaled = [i \in Inos |-> 0]

\* The history of a table that starts on an object holding omap.
InitHist(omap) ==
  [settled |-> FALSE, done |-> {}, image |-> omap, restarts |-> 0,
   opens |-> {}, enum |-> {}, fired |-> 0, prefetch_ret |-> <<>>,
   log_open |-> <<>>]

\* A fresh table on an object that does not exist yet.
Init ==
  /\ InitTable
  /\ cached = {}
  /\ obj_header = NoHeader
  /\ obj_omap = EmptyMap
  /\ hist = InitHist(EmptyMap)

\* What a commit of the anchor map writes: the encoded anchor of every key.
Image(am) == [i \in DOMAIN am |-> EncodeAnchor(am[i])]

\* ------------------------------------------------------ directory topology

RECURSIVE IsAncestor(_, _)
\* a is i or one of the directories above i
IsAncestor(a, i) ==
  IF i = NoIno THEN FALSE
  ELSE IF a = i THEN TRUE
  ELSE IsAncestor(a, parent[i])

CanLink(i, p) == is_dir(p) /\ parent[i] = NoIno /\ ~IsAncestor(i, p)

memory_vars == <<loaded_anchor_map, committing_log_seq, committed_log_seq,
                 num_pending_commit, clear_on_commit, load_done,
                 waiting_for_load, load_io, load_called>>
prefetch_vars == <<prefetch_state, num_opening_inodes, waiting_for_prefetch,
                   opening, cached>>
object_vars == <<obj_header, obj_omap>>
table_vars == <<state_tracked, anchor_map, dirty_items>>

\* The dentry of an inode the table does not track is linked: CDir links
\* the inode and, STATE_TRACKEDBYOFT being clear, does not notify.
LinkInode(i, p, n) ==
  /\ failed = ""
  /\ i \notin state_tracked
  /\ CanLink(i, p)
  /\ parent' = [parent EXCEPT ![i] = p]
  /\ dname' = [dname EXCEPT ![i] = n]
  /\ UNCHANGED <<direct, table_vars, memory_vars, pending, finisher,
                 object_vars, failed, hist>>
  /\ UNCHANGED <<prefetch_vars, last_journaled>>

UnlinkInode(i) ==
  /\ failed = ""
  /\ i \notin state_tracked
  /\ parent[i] # NoIno
  /\ parent' = [parent EXCEPT ![i] = NoIno]
  /\ dname' = [dname EXCEPT ![i] = NoName]
  /\ UNCHANGED <<direct, table_vars, memory_vars, pending, finisher,
                 object_vars, failed, hist>>
  /\ UNCHANGED <<prefetch_vars, last_journaled>>

\* ---------------------------------------------------- ref engine actions

\* The table after a ref engine call returned (or aborted on an assertion).
\* The commits in flight and the history remember whether the anchors they
\* were called on have changed since (fresh), and the inodes that were dirty
\* when they were called (keys).
TableUpdate(t) ==
  LET stale == Image(t.am) # Image(anchor_map)
  IN /\ anchor_map' = t.am
     /\ dirty_items' = t.di
     /\ state_tracked' = t.st
     /\ failed' = t.err
     /\ pending' = [c \in DOMAIN pending |->
                      [pending[c] EXCEPT !.fresh = @ /\ ~stale]]
     /\ finisher' = [c \in DOMAIN finisher |->
                       [finisher[c] EXCEPT !.fresh = @ /\ ~stale]]
     /\ hist' = [hist EXCEPT !.settled = @ /\ ~stale]

CurTab == Tab(anchor_map, dirty_items, state_tracked, "")

\* add_inode(in), lines 92-100.
add_inode(t, in) ==
  IF ~is_dir(in) /\ in \in DOMAIN t.am
  THEN Fail(t, "add_inode: no anchor")
  ELSE get_ref(t, in)

AddInode(in) ==
  /\ failed = ""
  /\ in \notin direct
  /\ direct' = direct \cup {in}
  /\ TableUpdate(add_inode(CurTab, in))
  /\ UNCHANGED <<parent, dname, memory_vars, object_vars>>
  /\ UNCHANGED <<prefetch_vars, last_journaled>>

\* remove_inode(in), lines 102-111.
remove_inode(t, in) ==
  IF ~is_dir(in) /\ in \notin DOMAIN t.am
  THEN Fail(t, "remove_inode: anchor exists")
  ELSE IF ~is_dir(in) /\ t.am[in].nref # 1
  THEN Fail(t, "remove_inode: nref == 1")
  ELSE put_ref(t, in)

RemoveInode(in) ==
  /\ failed = ""
  /\ in \in direct
  /\ direct' = direct \ {in}
  /\ TableUpdate(remove_inode(CurTab, in))
  /\ UNCHANGED <<parent, dname, memory_vars, object_vars>>
  /\ UNCHANGED <<prefetch_vars, last_journaled>>

\* notify_link that records the new dentry and takes no reference on the
\* new parent.
notify_link_no_ref(t, in, pin, n) ==
  [t EXCEPT !.am[in].dirino = pin,
            !.am[in].d_name = n,
            !.di = Emplace(@, in, 0)]

\* notify_link(in), lines 113-130, called once in's new primary dentry
\* (name n in directory pin) is linked.
notify_link(t, in, pin, n) ==
  IF in \notin DOMAIN t.am THEN Fail(t, "notify_link: anchor exists")
  ELSE IF ~(t.am[in].nref > 0) THEN Fail(t, "notify_link: nref > 0")
  ELSE IF t.am[in].dirino # NoIno THEN Fail(t, "notify_link: dirino == 0")
  ELSE IF t.am[in].d_name # NoName THEN Fail(t, "notify_link: d_name empty")
  ELSE get_ref([t EXCEPT !.am[in].dirino = pin,
                         !.am[in].d_name = n,
                         !.di = Emplace(@, in, 0)],
               pin)

NotifyLink(in, pin, n) ==
  /\ failed = ""
  /\ in \in state_tracked
  /\ CanLink(in, pin)
  /\ parent' = [parent EXCEPT ![in] = pin]
  /\ dname' = [dname EXCEPT ![in] = n]
  /\ TableUpdate(notify_link(CurTab, in, pin, n))
  /\ UNCHANGED <<direct, memory_vars, object_vars>>
  /\ UNCHANGED <<prefetch_vars, last_journaled>>

\* notify_unlink without the release of the parent's reference.
notify_unlink_keeps_ref(t, in) ==
  [t EXCEPT !.am[in].dirino = NoIno,
            !.am[in].d_name = NoName,
            !.di = Emplace(@, in, 0)]

\* notify_unlink(in), lines 132-149, called before in's primary dentry is
\* unlinked.
notify_unlink(t, in) ==
  LET pin == parent[in]
  IN IF in \notin DOMAIN t.am THEN Fail(t, "notify_unlink: anchor exists")
     ELSE IF ~(t.am[in].nref > 0) THEN Fail(t, "notify_unlink: nref > 0")
     ELSE IF t.am[in].dirino # pin THEN Fail(t, "notify_unlink: dirino")
     ELSE IF t.am[in].d_name # dname[in] THEN Fail(t, "notify_unlink: d_name")
     ELSE put_ref([t EXCEPT !.am[in].dirino = NoIno,
                            !.am[in].d_name = NoName,
                            !.di = Emplace(@, in, 0)],
                  pin)

NotifyUnlink(in) ==
  /\ failed = ""
  /\ in \in state_tracked
  /\ parent[in] # NoIno
  /\ parent' = [parent EXCEPT ![in] = NoIno]
  /\ dname' = [dname EXCEPT ![in] = NoName]
  /\ TableUpdate(notify_unlink(CurTab, in))
  /\ UNCHANGED <<direct, memory_vars, object_vars>>
  /\ UNCHANGED <<prefetch_vars, last_journaled>>

\* ---------------------------------------------------------- commit actions

WriteError == -5

RECURSIVE ApplyAll(_, _)
\* The omap after the sub-operations are applied one after the other.
ApplyAll(omap, ops) ==
  IF Len(ops) = 0 THEN omap ELSE ApplyAll(ApplyOmap(omap, Head(ops)), Tail(ops))

\* commit(c, log_seq, op_prio): the caller passes log_seq >= committing_log_seq
\* (asserted at line 194), a sequence number of the journal (at least 1).
Commit(log_seq) ==
  /\ failed = ""
  /\ log_seq >= committing_log_seq
  /\ LET plan == commit_plan(log_seq)
     IN /\ committing_log_seq' = log_seq
        /\ dirty_items' = EmptyMap
        /\ loaded_anchor_map' = plan.loaded
        /\ clear_on_commit' = plan.clear_on_commit
        /\ pending' = Append(pending, [log_seq |-> log_seq, ops |-> plan.ops,
                                       todo |-> 1..Len(plan.ops), r |-> 0,
                                       fresh |-> TRUE,
                                       keys |-> DOMAIN dirty_items])
        /\ hist' = [hist EXCEPT !.image = ApplyAll(@, plan.ops)]
  /\ num_pending_commit' = num_pending_commit + 1
  /\ UNCHANGED <<parent, dname, direct, state_tracked, anchor_map,
                 committed_log_seq, load_done, waiting_for_load, load_io,
                 load_called, finisher, object_vars, failed>>
  /\ UNCHANGED <<prefetch_vars, last_journaled>>

\* The object store applies the commits in the order they were submitted,
\* and the sub-operations of one commit in any order. The gather of the
\* oldest commit after its sub-operation k was answered with result r: the
\* first error is kept, and with no sub-operation left the gather is complete.
SubOpAcked(k, r) ==
  LET e == [pending[1] EXCEPT !.todo = @ \ {k},
                              !.r = IF @ = 0 THEN r ELSE @]
  IN IF e.todo = {}
     THEN /\ pending' = Tail(pending)
          /\ finisher' = Append(finisher, [log_seq |-> e.log_seq, r |-> e.r,
                                           fresh |-> e.fresh, keys |-> e.keys])
     ELSE /\ pending' = [pending EXCEPT ![1] = e]
          /\ finisher' = finisher

\* The object store applies one outstanding sub-operation of the oldest
\* commit, whichever it takes first.
ApplySubOp(k) ==
  /\ failed = ""
  /\ Len(pending) > 0
  /\ k \in pending[1].todo
  /\ obj_omap' = ApplyOmap(obj_omap, pending[1].ops[k])
  /\ obj_header' = ApplyHeader(obj_header, pending[1].ops[k])
  /\ SubOpAcked(k, 0)
  /\ UNCHANGED <<parent, dname, direct, table_vars, memory_vars, failed, hist>>
  /\ UNCHANGED <<prefetch_vars, last_journaled>>

\* The object store fails one outstanding sub-operation.
FailSubOp(k) ==
  /\ failed = ""
  /\ Len(pending) > 0
  /\ k \in pending[1].todo
  /\ SubOpAcked(k, WriteError)
  /\ UNCHANGED <<parent, dname, direct, table_vars, memory_vars, object_vars,
                 failed, hist>>
  /\ UNCHANGED <<prefetch_vars, last_journaled>>

\* _commit_finish without its two assertions.
commit_finish_unchecked(r, log_seq) ==
  IF r < 0 THEN "handle_write_error" ELSE ""

\* _commit_finish(r, log_seq, fin), lines 172-187: the fatal error it ends
\* in, "" when it returns.
commit_finish_error(r, log_seq) ==
  IF r < 0 THEN "handle_write_error"
  ELSE IF ~(log_seq <= committing_log_seq)
  THEN "_commit_finish: log_seq <= committing_log_seq"
  ELSE IF ~(log_seq >= committed_log_seq)
  THEN "_commit_finish: log_seq >= committed_log_seq"
  ELSE ""

\* The completion of the j-th complete gather runs: the answers of different
\* commits reach the MDS in any order.
CommitFinish(j) ==
  /\ failed = ""
  /\ j \in DOMAIN finisher
  /\ LET e == finisher[j]
         err == commit_finish_error(e.r, e.log_seq)
     IN /\ failed' = err
        /\ finisher' = SubSeq(finisher, 1, j - 1)
                          \o SubSeq(finisher, j + 1, Len(finisher))
        /\ IF err = ""
           THEN /\ committed_log_seq' = e.log_seq
                /\ num_pending_commit' = num_pending_commit - 1
                /\ hist' = [hist EXCEPT !.done = @ \cup {e.log_seq},
                                        !.settled = @ \/ e.fresh]
           ELSE UNCHANGED <<committed_log_seq, num_pending_commit, hist>>
  /\ UNCHANGED <<parent, dname, direct, table_vars, loaded_anchor_map,
                 committing_log_seq, clear_on_commit, load_done,
                 waiting_for_load, load_io, load_called, pending, object_vars>>
  /\ UNCHANGED <<prefetch_vars, last_journaled>>

\* --------------------------------------------------------------- prefetch

\* The results of mdcache->open_ino: the rank that is auth for the inode, or
\* an error.
OpenResults == {ENOENT} \cup 0..MaxRank

\* The opens mdcache->open_ino may answer before it returns: any of those of
\* the last directory and of the file.
SyncSets == SUBSET {NumInos - 1, NumInos}

\* The macros of mdstypes.h used at lines 499-504.
MDS_INO_IS_MDSDIR(i) ==
  i >= MDS_INO_MDSDIR_OFFSET /\ i < MDS_INO_MDSDIR_OFFSET + MAX_MDS
MDS_INO_MDSDIR_OWNER(i) == i - MDS_INO_MDSDIR_OFFSET
MDS_INO_IS_STRAY(i) ==
  i >= MDS_INO_STRAY_OFFSET /\ i < MDS_INO_STRAY_OFFSET + NUM_STRAY * MAX_MDS
MDS_INO_STRAY_OWNER(i) == (i - MDS_INO_STRAY_OFFSET) \div NUM_STRAY

\* mdcache->get_inode(ino) finds the inode in the cache.
get_inode(ino) == ino \in cached \cup direct \cup state_tracked

\* The fields the prefetch works on, with the first failed assertion and the
\* history: the opens issued so far (phase and inode), the phases whose
\* enumeration has run, the number of times the prefetch waiters were fired.
PState ==
  [state |-> prefetch_state, num |-> num_opening_inodes,
   loaded |-> loaded_anchor_map, waiters |-> waiting_for_prefetch,
   opening |-> opening, err |-> "",
   opens |-> hist.opens, enum |-> hist.enum, fired |-> hist.fired]

\* is_prefetched() of OpenFileTable.h
is_prefetched(P) == P.state = DONE

RECURSIVE _open_ino_finish(_, _, _, _, _)
RECURSIVE _prefetch_inodes(_, _, _)

\* Lines 512-517: the inode is opened unless the cache has it. The open of
\* an inode of sync is answered, with result rs, before open_ino returns;
\* the others are answered later.
prefetch_open(P, ino, sync, rs) ==
  IF get_inode(ino) THEN P
  ELSE LET P1 == [P EXCEPT !.num = @ + 1,
                           !.opens = @ \cup {<<P.state, ino>>}]
       IN IF ino \in sync
          THEN _open_ino_finish(P1, ino, rs, sync, rs)
          ELSE [P1 EXCEPT !.opening = @ \cup {ino}]

\* One iteration of the loop over loaded_anchor_map, lines 495-518.
prefetch_visit(P, ino, sync, rs) ==
  IF P.err # "" THEN P
  ELSE IF P.loaded[ino].d_type = "DT_DIR"
  THEN IF P.state # DIR_INODES THEN P
       ELSE IF MDS_INO_IS_MDSDIR(ino)
       THEN [P EXCEPT !.loaded[ino].auth = MDS_INO_MDSDIR_OWNER(ino)]
       ELSE IF MDS_INO_IS_STRAY(ino)
       THEN [P EXCEPT !.loaded[ino].auth = MDS_INO_STRAY_OWNER(ino)]
       ELSE prefetch_open(P, ino, sync, rs)
  ELSE IF P.state # FILE_INODES THEN P
       ELSE prefetch_open(P, ino, sync, rs)

\* for (auto& it : loaded_anchor_map), in the order of the std::map.
RECURSIVE prefetch_loop(_, _, _, _)
prefetch_loop(P, todo, sync, rs) ==
  IF todo = {} THEN P
  ELSE prefetch_loop(prefetch_visit(P, Min(todo), sync, rs),
                     todo \ {Min(todo)}, sync, rs)

\* _prefetch_inodes that counts the opens from 0 and ends without the
\* completion of its own.
prefetch_inodes_uncounted(P, sync, rs) ==
  IF P.err # "" THEN P
  ELSE prefetch_loop([P EXCEPT !.num = 0, !.enum = @ \cup {P.state}],
                     DOMAIN P.loaded, sync, rs)

\* _prefetch_inodes(), lines 479-521.
_prefetch_inodes(P, sync, rs) ==
  IF P.err # "" THEN P
  ELSE IF P.num # 0
  THEN [P EXCEPT !.err = "_prefetch_inodes: !num_opening_inodes"]
  ELSE IF P.state \notin {DIR_INODES, FILE_INODES}
  THEN [P EXCEPT !.err = "_prefetch_inodes: assert(0)"]
  ELSE LET P1 == [P EXCEPT !.num = 1, !.enum = @ \cup {P.state}]
           P2 == prefetch_loop(P1, DOMAIN P1.loaded, sync, rs)
       IN _open_ino_finish(P2, NoIno, 0, sync, rs)

\* _open_ino_finish(ino, r), lines 453-477; sync and rs are the opens of the
\* next phase that are answered at once, and their result.
_open_ino_finish(P, ino, r, sync, rs) ==
  IF P.err # "" THEN P
  ELSE IF P.state = DIR_INODES /\ r >= 0 /\ ino # NoIno
          /\ ino \notin DOMAIN P.loaded
  THEN [P EXCEPT !.err = "_open_ino_finish: p != loaded_anchor_map.end()"]
  ELSE LET P1 == IF P.state = DIR_INODES /\ r >= 0 /\ ino # NoIno
                 THEN [P EXCEPT !.loaded[ino].auth = r]
                 ELSE P
           P2 == [P1 EXCEPT !.num = @ - 1]
       IN IF P2.num # 0 THEN P2
          ELSE IF P2.state = DIR_INODES
          THEN _prefetch_inodes([P2 EXCEPT !.state = FILE_INODES], sync, rs)
          ELSE IF P2.state = FILE_INODES
          THEN [P2 EXCEPT !.state = DONE, !.fired = @ + 1, !.waiters = <<>>]
          ELSE [P2 EXCEPT !.err = "_open_ino_finish: assert(0)"]

\* The table after a step of the prefetch; ret is what prefetch_inodes has
\* returned so far.
PrefetchUpdate(P, ret) ==
  /\ prefetch_state' = P.state
  /\ num_opening_inodes' = P.num
  /\ loaded_anchor_map' = P.loaded
  /\ waiting_for_prefetch' = P.waiters
  /\ opening' = P.opening
  /\ failed' = P.err
  /\ hist' = [hist EXCEPT !.opens = P.opens, !.enum = P.enum,
                          !.fired = P.fired, !.prefetch_ret = ret]

\* prefetch_inodes that returns whether the prefetch is done.
prefetch_inodes_return_done(done, P) == is_prefetched(P)

\* What prefetch_inodes() returns, lines 529-541: done is load_done and P
\* the prefetch as _prefetch_inodes() left it.
prefetch_inodes_return(done, P) ==
  IF ~done THEN TRUE ELSE ~is_prefetched(P)

\* prefetch_inodes(), lines 523-542; called once on a table.
PrefetchInodes(sync, rs) ==
  /\ failed = ""
  /\ prefetch_state = 0
  /\ IF ~load_done
     THEN /\ LET P == [PState EXCEPT !.state = DIR_INODES]
             IN PrefetchUpdate(P, <<prefetch_inodes_return(FALSE, P)>>)
          /\ waiting_for_load' = Append(waiting_for_load, "prefetch")
     ELSE LET P == _prefetch_inodes([PState EXCEPT !.state = DIR_INODES],
                                    sync, rs)
          IN /\ PrefetchUpdate(P, <<prefetch_inodes_return(TRUE, P)>>)
             /\ UNCHANGED waiting_for_load
  /\ UNCHANGED <<parent, dname, direct, table_vars, committing_log_seq,
                 committed_log_seq, num_pending_commit, clear_on_commit,
                 load_done, load_io, load_called, pending, finisher,
                 object_vars, cached, last_journaled>>

\* wait_for_prefetch(c) of OpenFileTable.h: asserts the prefetch is not done.
WaitForPrefetch ==
  /\ failed = ""
  /\ prefetch_state # DONE
  /\ Len(waiting_for_prefetch) < MaxWaiters
  /\ waiting_for_prefetch' = Append(waiting_for_prefetch, "ctx")
  /\ UNCHANGED <<parent, dname, direct, table_vars, memory_vars, pending,
                 finisher, object_vars, failed, prefetch_state,
                 num_opening_inodes, opening, cached, last_journaled, hist>>

\* C_OFT_OpenInoFinish::finish(r), lines 442-451: the open of ino is
\* answered with r.
OpenInoFinish(ino, r, sync, rs) ==
  /\ failed = ""
  /\ ino \in opening
  /\ PrefetchUpdate(_open_ino_finish([PState EXCEPT !.opening = @ \ {ino}],
                                     ino, r, sync, rs),
                    hist.prefetch_ret)
  /\ UNCHANGED <<parent, dname, direct, table_vars, committing_log_seq,
                 committed_log_seq, num_pending_commit, clear_on_commit,
                 load_done, waiting_for_load, load_io, load_called, pending,
                 finisher, object_vars, cached, last_journaled>>

\* ---------------------------------------------------------------- journal

\* The MDS journals an event for the inode in the segment log_seq and
\* records it in in->last_journaled.
Journal(in, log_seq) ==
  /\ failed = ""
  /\ last_journaled[in] # log_seq
  /\ last_journaled' = [last_journaled EXCEPT ![in] = log_seq]
  /\ UNCHANGED <<parent, dname, direct, table_vars, memory_vars, pending,
                 finisher, object_vars, failed, prefetch_vars, hist>>

\* should_log_open that asks for the journal entry of an inode journaled at
\* or after committing_log_seq.
should_log_open_after(in) ==
  IF in \in state_tracked
  THEN IF last_journaled[in] < committing_log_seq THEN FALSE
       ELSE in \in DOMAIN dirty_items
  ELSE TRUE

\* should_log_open(in), lines 544-556.
should_log_open(in) ==
  IF in \in state_tracked
  THEN IF last_journaled[in] >= committing_log_seq THEN FALSE
       ELSE IF in \notin DOMAIN dirty_items THEN FALSE
       ELSE TRUE
  ELSE TRUE

ShouldLogOpen(in) ==
  /\ failed = ""
  /\ hist' = [hist EXCEPT !.log_open = <<in, should_log_open(in)>>]
  /\ UNCHANGED <<parent, dname, direct, table_vars, memory_vars, pending,
                 finisher, object_vars, failed, prefetch_vars,
                 last_journaled>>

\* ------------------------------------------------------------------- load

\* load(onload), lines 390-408; called once on a table.
Load(onload) ==
  /\ failed = ""
  /\ ~load_called
  /\ ~load_done
  /\ load_called' = TRUE
  /\ waiting_for_load' = IF onload THEN Append(waiting_for_load, "ctx")
                                    ELSE waiting_for_load
  /\ load_io' = <<[first |-> TRUE, after |-> <<>>]>>
  /\ UNCHANGED <<parent, dname, direct, table_vars, loaded_anchor_map,
                 committing_log_seq, committed_log_seq, num_pending_commit,
                 clear_on_commit, load_done, pending, finisher, object_vars,
                 failed, hist>>
  /\ UNCHANGED <<prefetch_vars, last_journaled>>

\* wait_for_load(c) of OpenFileTable.h: asserts the load is not done.
WaitForLoad ==
  /\ failed = ""
  /\ ~load_done
  /\ Len(waiting_for_load) < MaxWaiters
  /\ waiting_for_load' = Append(waiting_for_load, "ctx")
  /\ UNCHANGED <<parent, dname, direct, table_vars, loaded_anchor_map,
                 committing_log_seq, committed_log_seq, num_pending_commit,
                 clear_on_commit, load_done, load_io, load_called, pending,
                 finisher, object_vars, failed, hist>>
  /\ UNCHANGED <<prefetch_vars, last_journaled>>

\* The values of one page decoded into the loaded map, lines 346-360.
load_values(loaded, omap, keys) ==
  [i \in DOMAIN loaded \cup {ParseHex(k) : k \in keys} |->
     IF \E k \in keys : ParseHex(k) = i
     THEN DecodeAnchor(omap[CHOOSE k \in keys : ParseHex(k) = i])
     ELSE loaded[i]]

\* The read error branch with the loaded map of the earlier pages kept.
load_read_error_keeps(S, first) == [S EXCEPT !.clear = TRUE]

\* The branch of a failed read, lines 325-331.
load_read_error(S, first) ==
  [S EXCEPT !.clear = TRUE, !.loaded = IF first THEN @ ELSE EmptyMap]

\* _load_finish, lines 320-388, on the reply to the read in flight. The
\* object store answers with the header and the next n values (result "ok"),
\* or the read fails ("eio", and always when there is no object), or the
\* header or a value read back does not decode ("bad_header", "bad_value").
\* Returns the fields it changes, with out = TRUE when it reached the label
\* out and more = TRUE when it issued the next read.
load_finish(first, after, result, n) ==
  LET noent == obj_header = NoHeader /\ DOMAIN obj_omap = {}
      op_r == IF result = "eio" \/ noent THEN WriteError ELSE 0
      keys == FirstKeys(KeysAfter(obj_omap, after), n)
      more == keys # KeysAfter(obj_omap, after)
      S0 == [loaded |-> loaded_anchor_map, clear |-> clear_on_commit,
             committing |-> committing_log_seq,
             committed |-> committed_log_seq,
             out |-> TRUE, more |-> FALSE, after |-> after, err |-> "",
             result |-> "error"]
      thrown(S) == [S EXCEPT !.clear = TRUE, !.loaded = EmptyMap]
      values(S) ==
        IF result = "bad_value" /\ keys # {} THEN thrown(S)
        ELSE IF \E k \in keys : ParseHex(k) # obj_omap[k].ino
        THEN [S EXCEPT !.err = "_load_finish: ino == anchor.ino"]
        ELSE LET S1 == [S EXCEPT !.loaded = load_values(@, obj_omap, keys)]
             IN IF more
                THEN [S1 EXCEPT !.out = FALSE, !.more = TRUE,
                                !.after = LastKey(keys), !.result = "more"]
                ELSE [S1 EXCEPT !.result = "complete"]
  IN IF op_r < 0
     THEN load_read_error(S0, first)
     ELSE IF first
     THEN IF result = "bad_header" \/ obj_header = NoHeader
          THEN thrown(S0)
          ELSE LET S1 == [S0 EXCEPT !.committing = obj_header,
                                    !.committed = obj_header]
               IN IF obj_header = 0
                  THEN [S1 EXCEPT !.result = "incomplete"]
                  ELSE values(S1)
     ELSE values(S0)

\* C_IO_OFT_Load::finish, lines 315-317. Among the contexts finish_contexts
\* runs at the label out is the one prefetch_inodes registered (lines
\* 530-536), which calls _prefetch_inodes.
LoadFinish(result, n) ==
  /\ failed = ""
  /\ Len(load_io) > 0
  /\ LET S == load_finish(load_io[1].first, load_io[1].after, result, n)
         fired == S.out /\ S.err = ""
         prefetch == \E w \in DOMAIN waiting_for_load :
                       waiting_for_load[w] = "prefetch"
     IN /\ clear_on_commit' = S.clear
        /\ committing_log_seq' = S.committing
        /\ committed_log_seq' = S.committed
        /\ load_io' = IF S.more THEN <<[first |-> FALSE, after |-> S.after]>>
                                ELSE <<>>
        /\ IF fired
           THEN /\ load_done' = TRUE
                /\ waiting_for_load' = <<>>
           ELSE UNCHANGED <<load_done, waiting_for_load>>
        /\ IF fired /\ prefetch
           THEN \E sync \in SyncSets, rs \in OpenResults :
                  PrefetchUpdate(
                    _prefetch_inodes([PState EXCEPT !.loaded = S.loaded],
                                     sync, rs),
                    hist.prefetch_ret)
           ELSE /\ failed' = S.err
                /\ loaded_anchor_map' = S.loaded
                /\ UNCHANGED <<prefetch_state, num_opening_inodes,
                               waiting_for_prefetch, opening, hist>>
  /\ UNCHANGED <<parent, dname, direct, table_vars, num_pending_commit,
                 load_called, pending, finisher, object_vars, cached,
                 last_journaled>>

\* ---------------------------------------------------------------- restart

\* The MDS stops (a crash, or the abort of a failed assertion) and a new one
\* starts on the same object with a fresh table: what was not yet applied
\* to the object is lost.
Restart ==
  /\ hist.restarts < MaxRestarts
  /\ direct' = {}
  /\ state_tracked' = {}
  /\ anchor_map' = EmptyMap
  /\ dirty_items' = EmptyMap
  /\ loaded_anchor_map' = EmptyMap
  /\ committing_log_seq' = 0
  /\ committed_log_seq' = 0
  /\ num_pending_commit' = 0
  /\ clear_on_commit' = FALSE
  /\ load_done' = FALSE
  /\ waiting_for_load' = <<>>
  /\ load_io' = <<>>
  /\ load_called' = FALSE
  /\ pending' = <<>>
  /\ finisher' = <<>>
  /\ failed' = ""
  /\ prefetch_state' = 0
  /\ num_opening_inodes' = 0
  /\ waiting_for_prefetch' = <<>>
  /\ opening' = {}
  /\ cached' = {}
  /\ last_journaled' = [i \in Inos |-> 0]
  /\ hist' = [InitHist(obj_omap) EXCEPT !.restarts = hist.restarts + 1]
  /\ UNCHANGED <<parent, dname, object_vars>>

\* ---------------------------------------------------------- specifications

\* The inodes the cache works on.
RefEngine(S) ==
  \/ \E i \in S, p \in S, n \in Names : LinkInode(i, p, n)
  \/ \E i \in S : UnlinkInode(i)
  \/ \E i \in S : AddInode(i)
  \/ \E i \in S : RemoveInode(i)
  \/ \E i \in S, p \in S, n \in Names : NotifyLink(i, p, n)
  \/ \E i \in S : NotifyUnlink(i)

\* The commits, with at most limit of them in flight.
Committing(limit) ==
  \/ \E s \in 1..MaxSeq : num_pending_commit < limit /\ Commit(s)
  \/ \E k \in 1..(NumInos + 1) : ApplySubOp(k)
  \/ \E j \in 1..limit : CommitFinish(j)

WriteFailure == \E k \in 1..(NumInos + 1) : FailSubOp(k)

Loading ==
  \/ \E onload \in BOOLEAN : Load(onload)
  \/ WaitForLoad
  \/ \E result \in {"ok", "eio", "bad_header", "bad_value"}, n \in 1..MaxPage :
        LoadFinish(result, n)

\* The ref engine alone, on every inode.
NextRef == RefEngine(Inos)
SpecRef == Init /\ [][NextRef]_vars

\* A fresh table on an empty object: the ref engine on one directory and one
\* file, the commits and the write failures.
CommitInos == {NumInos - 1, NumInos}
NextCommit ==
  \/ RefEngine(CommitInos)
  \/ Committing(MaxPending)
  \/ WriteFailure
SpecCommit == Init /\ [][NextCommit]_vars

\* Restarts and loads: the ref engine, the commits issued one at a time, the
\* load of the table and the restart of the MDS on the object it left.
Next ==
  \/ RefEngine(CommitInos)
  \/ Committing(1)
  \/ Loading
  \/ Restart
Spec == Init /\ [][Next]_vars

\* A table on an empty object whose load is started before its first commit
\* is called: the ref engine, the load in pages and the commits, one at a
\* time, that interleave with it.
NextLoadFirst ==
  \/ RefEngine(CommitInos)
  \/ \E s \in 1..MaxSeq : load_called /\ num_pending_commit < 1 /\ Commit(s)
  \/ \E k \in 1..(NumInos + 1) : ApplySubOp(k)
  \/ \E j \in 1..1 : CommitFinish(j)
  \/ Loading
SpecLoadFirst == Init /\ [][NextLoadFirst]_vars

\* The inodes the object holds anchors of: any of two directories, the
\* file, and the directory of rank 0, which is in a reserved range.
ObjectInos == (Inos \ {1}) \cup {MDS_INO_MDSDIR_OFFSET}

\* The anchor an earlier table has written for an inode tracked without a
\* parent dentry.
WrittenAnchor(i) ==
  [ino |-> i, dirino |-> NoIno, d_name |-> NoName,
   d_type |-> IF i \in Inos THEN d_type(i) ELSE "DT_DIR"]

\* A fresh table on the object an earlier MDS has committed, with some of
\* the inodes already in the cache.
InitPrefetch ==
  /\ InitTable
  /\ cached \in SUBSET {2, NumInos}
  /\ obj_header = 1
  /\ \E S \in SUBSET ObjectInos :
        obj_omap = [k \in {HexKey(i) : i \in S} |-> WrittenAnchor(ParseHex(k))]
  /\ hist = InitHist(obj_omap)

\* The boot of an MDS: the load, the prefetch and the opens it waits for,
\* and the commits, one at a time.
NextPrefetch ==
  \/ Load(TRUE)
  \/ \E result \in {"ok", "eio", "bad_header", "bad_value"}, n \in 1..MaxPage :
        LoadFinish(result, n)
  \/ \E sync \in SyncSets, rs \in OpenResults : PrefetchInodes(sync, rs)
  \/ WaitForPrefetch
  \/ \E ino \in Inos, r \in OpenResults, sync \in SyncSets, rs \in OpenResults :
        OpenInoFinish(ino, r, sync, rs)
  \/ Committing(1)
SpecPrefetch == InitPrefetch /\ [][NextPrefetch]_vars

\* The journal and the commits seen by should_log_open: the ref engine, the
\* commits called and not yet completed, the journal of an inode, the
\* question whether its open is to be journaled.
NextLogOpen ==
  \/ RefEngine(CommitInos)
  \/ \E s \in 1..MaxSeq : num_pending_commit < MaxPending /\ Commit(s)
  \/ \E in \in CommitInos, s \in 1..MaxSeq : Journal(in, s)
  \/ \E in \in CommitInos : ShouldLogOpen(in)
SpecLogOpen == Init /\ [][NextLogOpen]_vars

\* ----------------------------------------------------------------- claims

KeysOf(am) == {HexKey(i) : i \in DOMAIN am}

\* The object holds exactly the anchors of the map, each with its current
\* ino, dirino, d_name and d_type.
ObjectIsImage(am) ==
  /\ DOMAIN obj_omap = KeysOf(am)
  /\ \A i \in DOMAIN am : obj_omap[HexKey(i)] = EncodeAnchor(am[i])

WriteFailed ==
  \/ failed = "handle_write_error"
  \/ \E j \in DOMAIN finisher : finisher[j].r < 0
  \/ \E k \in DOMAIN pending : pending[k].r < 0

PartlyApplied(c) ==
  /\ Len(c.ops) > 1
  /\ c.todo # {}
  /\ c.todo # 1..Len(c.ops)

\* C2: while some but not all sub-operations of a commit of more than one
\* sub-operation are applied, whatever the order they are applied in, the
\* header of the object is 0 (so that a crash there leaves header 0).
C2_PartialCommitHeaderZero ==
  \A c \in DOMAIN pending : PartlyApplied(pending[c]) => obj_header = 0

\* The first page of a load is answered, without error, with header 0.
LoadReadsZeroHeader(n) ==
  /\ Len(load_io) > 0
  /\ load_io[1].first
  /\ obj_header = 0
  /\ LoadFinish("ok", n)

\* C3: a load that reads header 0 on its first page finishes with an empty
\* loaded map and with clear_on_commit set, so that the next commit carries an
\* omap_clear in its first sub-operation.
C3_ZeroHeaderSetsClear ==
  [][\A n \in 1..MaxPage :
       LoadReadsZeroHeader(n) =>
         /\ load_done'
         /\ loaded_anchor_map' = EmptyMap
         /\ clear_on_commit']_vars

\* The reply to the read in flight is an error: the read failed (always so
\* when there is no object), or the header of the first page or a value of
\* the page does not decode.
LoadErrorCase(result, n) ==
  LET first == load_io[1].first
      page == FirstKeys(KeysAfter(obj_omap, load_io[1].after), n)
  IN \/ result = "eio"
     \/ obj_header = NoHeader /\ DOMAIN obj_omap = {}
     \/ first /\ (result = "bad_header" \/ obj_header = NoHeader)
     \/ result = "bad_value" /\ page # {} /\ ~(first /\ obj_header = 0)

\* C4: a read error or a decode error on any page completes the load: the
\* loaded map is empty, clear_on_commit and load_done are set, the waiters
\* are fired and no further page is requested.
C4_LoadErrorCompletes ==
  [][\A result \in {"ok", "eio", "bad_header", "bad_value"}, n \in 1..MaxPage :
       (Len(load_io) > 0 /\ LoadErrorCase(result, n) /\ LoadFinish(result, n)) =>
         /\ loaded_anchor_map' = EmptyMap
         /\ clear_on_commit'
         /\ load_done'
         /\ waiting_for_load' = <<>>
         /\ load_io' = <<>>]_vars

\* A load ended on an error: on the state, a completed load that left the
\* counters of a fresh table, clear_on_commit set while no commit was called,
\* on an object with a nonzero header and several values (so the error came
\* on the first or on a later page of a good object).
C4_Witness ==
  /\ load_done
  /\ clear_on_commit
  /\ loaded_anchor_map = EmptyMap
  /\ waiting_for_load = <<>>
  /\ load_io = <<>>
  /\ obj_header > 0
  /\ Cardinality(DOMAIN obj_omap) = 2
  /\ committing_log_seq = obj_header
  /\ num_pending_commit = 0

\* C5: committed_log_seq <= committing_log_seq in every state.
C5_CommittedLeCommitting == committed_log_seq <= committing_log_seq

\* After a restart a load has set the counters from the header and a later
\* commit has completed.
C5_Witness ==
  /\ hist.restarts = 1
  /\ load_done
  /\ hist.done # {}
  /\ committed_log_seq = MaxSeq
  /\ obj_header < MaxSeq

Max(S) == CHOOSE x \in S : \A y \in S : y <= x

\* C6: whatever the order in which the commits in flight complete, no
\* assertion of _commit_finish fails and committed_log_seq is the highest
\* log_seq of the commits completed so far.
C6_CompletionTakesMax ==
  /\ failed \notin {"_commit_finish: log_seq <= committing_log_seq",
                     "_commit_finish: log_seq >= committed_log_seq"}
  /\ hist.done # {} => committed_log_seq = Max(hist.done)

\* C7: the nref of every anchor is 1 if the inode is directly tracked, plus
\* the number of anchors whose dirino it is; it is at least 1.
C7_NrefCounts ==
  \A a \in DOMAIN anchor_map :
    /\ anchor_map[a].nref =
         (IF a \in direct THEN 1 ELSE 0)
         + Cardinality({b \in DOMAIN anchor_map : anchor_map[b].dirino = a})
    /\ anchor_map[a].nref >= 1

\* A directory tracked directly that is the dirino of two anchors.
C7_Witness ==
  \E a \in DOMAIN anchor_map :
    /\ a \in direct
    /\ anchor_map[a].nref = 3
    /\ \E b \in DOMAIN anchor_map : b \notin direct /\ anchor_map[b].nref = 1

\* C8: the dirino of every anchor, when not 0, has an anchor.
C8_ParentAnchored ==
  \A a \in DOMAIN anchor_map :
    anchor_map[a].dirino # NoIno => anchor_map[a].dirino \in DOMAIN anchor_map

\* A chain of three anchors pinned by the one at its bottom.
C8_Witness ==
  \E a, b, c \in DOMAIN anchor_map :
    /\ anchor_map[a].dirino = b
    /\ anchor_map[b].dirino = c
    /\ anchor_map[c].dirino = NoIno
    /\ direct = {a}

\* The persisted image of X, written by the commits called so far, differs
\* from the anchor map: the key against the anchor, or the value.
ImageDiffers(X) ==
  \/ (HexKey(X) \in DOMAIN hist.image) # (X \in DOMAIN anchor_map)
  \/ /\ X \in DOMAIN anchor_map
     /\ HexKey(X) \in DOMAIN hist.image
     /\ hist.image[HexKey(X)] # EncodeAnchor(anchor_map[X])

\* C9: every inode whose image written by the commits called so far differs
\* from its state in the anchor map has an entry in the dirty set.
C9_DirtyCoversDifferences ==
  \A X \in Inos : ImageDiffers(X) => X \in DOMAIN dirty_items

\* An anchor written by a commit was erased since, and the anchor of another
\* inode changed since a commit wrote it.
C9_Witness ==
  /\ \E X \in Inos : /\ X \notin DOMAIN anchor_map
                      /\ HexKey(X) \in DOMAIN hist.image
                      /\ dirty_items[X] = 0
  /\ \E X \in Inos : /\ X \in DOMAIN anchor_map
                      /\ HexKey(X) \in DOMAIN hist.image
                      /\ hist.image[HexKey(X)] # EncodeAnchor(anchor_map[X])
                      /\ dirty_items[X] = 0

\* The dirty entries of the inodes of S are the same in d1 and d2.
SameDirty(d1, d2, S) ==
  \A x \in S : /\ (x \in DOMAIN d1) = (x \in DOMAIN d2)
               /\ x \in DOMAIN d1 => d1[x] = d2[x]

\* C10: add_inode(I) on an inode without anchor, then remove_inode(I), leave
\* the anchor map as it was before the add, and the dirty entries of I and
\* of the ancestors the add anchored as they were.
C10_AddRemoveCancel ==
  [][\A I \in Inos :
       (I \notin DOMAIN anchor_map /\ AddInode(I)) =>
         LET t == remove_inode(Tab(anchor_map', dirty_items', state_tracked', ""), I)
         IN /\ t.err = ""
            /\ t.am = anchor_map
            /\ SameDirty(t.di, dirty_items,
                         DOMAIN anchor_map' \ DOMAIN anchor_map)]_vars

\* add_inode has anchored an inode and its parent, both erased since the
\* last commit wrote them.
C10_Witness ==
  \E I \in direct :
    /\ parent[I] # NoIno
    /\ anchor_map[I].nref = 1
    /\ anchor_map[parent[I]].nref = 1
    /\ parent[I] \notin direct
    /\ I \in DOMAIN dirty_items /\ dirty_items[I] = 0
    /\ parent[I] \in DOMAIN dirty_items /\ dirty_items[parent[I]] = 0

\* C11: notify_unlink(I) on an anchor whose dirino is its parent P, then
\* notify_link(I) into P under the same name, leave the anchor of I and the
\* anchor of P as they were before the unlink (presence, dirino, d_name,
\* d_type, nref), and with them every other anchor, also when P was pinned by
\* I alone and is erased in between; neither call changes the nref of I.
C11_UnlinkLinkRestores ==
  [][\A I \in Inos :
       (/\ I \in DOMAIN anchor_map
        /\ parent[I] # NoIno
        /\ anchor_map[I].dirino = parent[I]
        /\ NotifyUnlink(I)) =>
         LET P == parent[I]
             t == notify_link(Tab(anchor_map', dirty_items', state_tracked', ""),
                              I, P, dname[I])
         IN /\ failed' = ""
            /\ anchor_map'[I].nref = anchor_map[I].nref
            /\ t.err = ""
            /\ t.am[I] = anchor_map[I]
            /\ P \in DOMAIN t.am
            /\ t.am[P] = anchor_map[P]
            /\ t.am = anchor_map
            /\ t.st = state_tracked]_vars

\* notify_unlink has acted on an anchor a commit had written with its
\* parent: the anchor is left without dirino, and the parent, which it alone
\* pinned, is erased; both are dirty for the next commit.
C11_Witness ==
  \E I \in direct :
    LET P == hist.image[HexKey(I)].dirino
    IN /\ HexKey(I) \in DOMAIN hist.image
       /\ P # NoIno
       /\ HexKey(P) \in DOMAIN hist.image
       /\ parent[I] = NoIno
       /\ anchor_map[I].dirino = NoIno
       /\ anchor_map[I].nref = 1
       /\ P \notin DOMAIN anchor_map
       /\ I \in DOMAIN dirty_items /\ dirty_items[I] = 0
       /\ P \in DOMAIN dirty_items /\ dirty_items[P] = 0

\* Every live anchor equals the loaded anchor of the same inode.
LiveEqualsLoaded ==
  \A X \in DOMAIN anchor_map :
    /\ X \in DOMAIN loaded_anchor_map
    /\ AnchorEq(anchor_map[X], loaded_anchor_map[X])

\* C12: a table that has loaded the object and commits while every live
\* anchor equals its loaded image writes no key value: every dirty entry
\* whose anchor equals the loaded one is skipped and no sub-operation of
\* that commit has an omap_set entry.
C12_RoundTripWritesNothing ==
  [][\A s \in 1..MaxSeq :
       (load_done /\ LiveEqualsLoaded /\ Commit(s)) =>
         \A k \in DOMAIN pending'[Len(pending')].ops :
           pending'[Len(pending')].ops[k].set = EmptyMap]_vars

\* After a restart the table has loaded the object the commits before had
\* written, the cache has anchored two inodes again, and the first commit of
\* the new table, called on these anchors, is in flight with no value to
\* write.
C12_Witness ==
  /\ hist.restarts = 1
  /\ load_done
  /\ hist.done = {}
  /\ finisher = <<>>
  /\ Len(pending) = 1
  /\ pending[1].fresh
  /\ \A k \in DOMAIN pending[1].ops : pending[1].ops[k].set = EmptyMap
  /\ Cardinality(DOMAIN anchor_map) = 2
  /\ \E X \in DOMAIN anchor_map : anchor_map[X].dirino # NoIno
  /\ loaded_anchor_map = EmptyMap
  /\ obj_header > 0

\* The keys the commit submitted by this step removes from the object.
RemovedKeys ==
  UNION {pending'[Len(pending')].ops[k].rm :
           k \in DOMAIN pending'[Len(pending')].ops}

\* C19: a key the first commit after load schedules for removal because it
\* is left in the loaded map after the dirty set was iterated belongs to no
\* live anchor: no commit, however it interleaves with the pages of the
\* load, removes the key of an inode that has an anchor.
C19_RemovedKeysNotLive ==
  [][\A s \in 1..MaxSeq :
       Commit(s) =>
         \A key \in RemovedKeys : ParseHex(key) \notin DOMAIN anchor_map]_vars

\* C20: no step of a run other than the restart of the MDS lowers
\* committing_log_seq or committed_log_seq, the first page of a load
\* included, and the completion of a commit never finds its log_seq above
\* committing_log_seq.
C20_CountersNeverDecrease ==
  [][hist'.restarts = hist.restarts =>
       /\ committing_log_seq' >= committing_log_seq
       /\ committed_log_seq' >= committed_log_seq
       /\ failed' # "_commit_finish: log_seq <= committing_log_seq"]_vars

\* The sub-operations of the commit submitted by this step.
SubmittedOps == pending'[Len(pending')].ops

\* C16: the real log_seq is set in the last sub-operation a commit issues
\* and in no other, header 0 is set in the first one and only when it is not
\* the last, a commit with nothing dirty still issues one sub-operation with
\* the header; and when a commit with log_seq s completes successfully, all
\* its sub-operations applied in whatever order and no other commit in
\* flight, the header of the object is s and committed_log_seq becomes s.
C16_HeaderIsLogSeqAfterCommit ==
  [][/\ \A s \in 1..MaxSeq :
          Commit(s) =>
            /\ Len(SubmittedOps) >= 1
            /\ SubmittedOps[Len(SubmittedOps)].header = s
            /\ \A k \in 1..(Len(SubmittedOps) - 1) :
                  SubmittedOps[k].header = IF k = 1 THEN 0 ELSE NoHeader
     /\ \A j \in DOMAIN finisher :
          (/\ CommitFinish(j)
           /\ finisher[j].r = 0
           /\ failed' = ""
           /\ Len(pending) = 0
           /\ Len(finisher) = 1) =>
             /\ obj_header = finisher[j].log_seq
             /\ committed_log_seq' = finisher[j].log_seq]_vars

\* The object holds for inode X what the anchor map holds: the current
\* anchor under its key, or no key when X has no anchor.
ObjectReflects(X) ==
  IF X \in DOMAIN anchor_map
  THEN /\ HexKey(X) \in DOMAIN obj_omap
       /\ obj_omap[HexKey(X)] = EncodeAnchor(anchor_map[X])
  ELSE HexKey(X) \notin DOMAIN obj_omap

\* The commit submitted by this step writes inode X: its current anchor is
\* set, or its key is removed when it has no anchor.
SubmittedWrites(X) ==
  \E k \in DOMAIN SubmittedOps :
    IF X \in DOMAIN anchor_map
    THEN /\ HexKey(X) \in DOMAIN SubmittedOps[k].set
         /\ SubmittedOps[k].set[HexKey(X)] = EncodeAnchor(anchor_map[X])
    ELSE HexKey(X) \in SubmittedOps[k].rm

\* C17: commit empties the dirty set before it returns and writes every
\* inode that was dirty, so a mutation made while an earlier commit is in
\* flight is written by the next commit; when that commit completes
\* successfully with no anchor changed since its call, the object reflects
\* every inode it was called on, whenever the earlier commit completes.
C17_NextCommitWritesMutation ==
  [][/\ \A s \in 1..MaxSeq :
          Commit(s) =>
            /\ dirty_items' = EmptyMap
            /\ \A X \in DOMAIN dirty_items : SubmittedWrites(X)
     /\ \A j \in DOMAIN finisher :
          (/\ CommitFinish(j)
           /\ finisher[j].r = 0
           /\ failed' = ""
           /\ finisher[j].fresh) =>
             \A X \in finisher[j].keys : ObjectReflects(X)]_vars

\* commit(1) was called, an anchor changed while it was in flight, commit(2)
\* was called on the changed anchors and has completed, before the
\* completion of commit(1) has run; the object holds the anchors.
C17_Witness ==
  /\ hist.settled
  /\ 2 \in hist.done
  /\ \E j \in DOMAIN finisher : /\ finisher[j].log_seq = 1
                                 /\ finisher[j].r = 0
                                 /\ ~finisher[j].fresh
                                 /\ finisher[j].keys # {}
  /\ DOMAIN anchor_map # {}
  /\ \A X \in Inos : ObjectReflects(X)

\* ------------------------------------------------------------------- C13

\* The inodes an open was issued for in the phase ph.
OpensOf(h, ph) == {o[2] : o \in {x \in h.opens : x[1] = ph}}

\* The loaded anchors the phase ph has to open: the directories outside the
\* reserved ranges for DIR_INODES, the others for FILE_INODES, less those in
\* the inode cache.
ToOpen(loaded, ph) ==
  {i \in DOMAIN loaded :
     /\ ~get_inode(i)
     /\ IF ph = DIR_INODES
        THEN /\ loaded[i].d_type = "DT_DIR"
             /\ ~MDS_INO_IS_MDSDIR(i)
             /\ ~MDS_INO_IS_STRAY(i)
        ELSE loaded[i].d_type # "DT_DIR"}

\* C13: the phase only moves forward; the enumeration of a phase issues the
\* opens of exactly the loaded anchors the phase has to open, and the
\* counter is the number of opens not yet answered; the phase is past
\* DIR_INODES only after the enumeration of the directories with none of
\* their opens left, and it does not stay in a phase whose opens are all
\* answered; it is DONE only after the enumeration of the files with no open
\* left, and the prefetch waiters have been fired once in DONE and never
\* before.
C13_PrefetchPhases ==
  [][/\ prefetch_state' >= prefetch_state
     /\ \A ph \in {DIR_INODES, FILE_INODES} :
          (ph \in hist'.enum /\ ph \notin hist.enum /\ failed' = "")
            => OpensOf(hist', ph) = ToOpen(loaded_anchor_map', ph)
     /\ failed' = "" => num_opening_inodes' = Cardinality(opening')
     /\ prefetch_state' >= FILE_INODES
          => /\ DIR_INODES \in hist'.enum
             /\ opening' \cap OpensOf(hist', DIR_INODES) = {}
     /\ (failed' = "" /\ prefetch_state' \in hist'.enum) => opening' # {}
     /\ prefetch_state' = DONE
          => /\ FILE_INODES \in hist'.enum
             /\ opening' = {}
             /\ waiting_for_prefetch' = <<>>
             /\ hist'.fired = 1
     /\ prefetch_state' # DONE => hist'.fired = 0]_vars

\* C13 witness: the prefetch is done after two opens of directories and one
\* of a file, with the directory of rank 0 given its owner and the waiters
\* fired.
C13_Witness ==
  /\ failed = ""
  /\ prefetch_state = DONE
  /\ Cardinality(OpensOf(hist, DIR_INODES)) = 2
  /\ Cardinality(OpensOf(hist, FILE_INODES)) = 1
  /\ hist.fired = 1
  /\ MDS_INO_MDSDIR_OFFSET \in DOMAIN loaded_anchor_map
  /\ loaded_anchor_map[MDS_INO_MDSDIR_OFFSET].auth = 0

\* ------------------------------------------------------------------- C14

\* C14 as stated: prefetch_inodes returns true exactly when the phase is
\* DONE at the time it returns.
C14_ReturnsWhetherDone ==
  [][hist'.prefetch_ret # hist.prefetch_ret
       => hist'.prefetch_ret = <<prefetch_state' = DONE>>]_vars

\* C14 amended: prefetch_inodes returns true exactly when the phase is not
\* DONE at the time it returns (the load is not done or some open is still
\* outstanding), and false when the prefetch completed before it returned.
C14_ReturnsWhetherPending ==
  [][hist'.prefetch_ret # hist.prefetch_ret
       => /\ hist'.prefetch_ret = <<prefetch_state' # DONE>>
          /\ hist'.prefetch_ret = <<~load_done \/ opening' # {}>>]_vars

\* C14 witness: prefetch_inodes has returned false on a table whose load
\* was done, after opens that were all answered before it returned.
C14_Witness ==
  /\ failed = ""
  /\ hist.prefetch_ret = <<FALSE>>
  /\ prefetch_state = DONE
  /\ hist.opens # {}

\* ------------------------------------------------------------------- C18

\* C18: the assertion of _open_ino_finish on the anchor of the opened inode
\* never fails.
C18_OpenedAnchorStillLoaded ==
  failed # "_open_ino_finish: p != loaded_anchor_map.end()"

\* ------------------------------------------------------------------- C15

\* The inode in is tracked and has an entry in the dirty set.
TrackedAndDirty(in) == in \in state_tracked /\ in \in DOMAIN dirty_items

\* C15 as stated: for a tracked inode with an entry in the dirty set,
\* should_log_open returns true when last_journaled is greater than
\* committing_log_seq and false when it is less.
C15_LogOpenWhenJournaledLater ==
  [][\A in \in CommitInos :
       (TrackedAndDirty(in) /\ ShouldLogOpen(in))
         => /\ last_journaled[in] > committing_log_seq
                 => hist'.log_open = <<in, TRUE>>
            /\ last_journaled[in] < committing_log_seq
                 => hist'.log_open = <<in, FALSE>>]_vars

\* C15 amended: for a tracked inode with an entry in the dirty set,
\* should_log_open returns false when last_journaled is greater than or
\* equal to committing_log_seq and true when it is less.
C15_LogOpenWhenJournaledEarlier ==
  [][\A in \in CommitInos :
       (TrackedAndDirty(in) /\ ShouldLogOpen(in))
         => /\ last_journaled[in] >= committing_log_seq
                 => hist'.log_open = <<in, FALSE>>
            /\ last_journaled[in] < committing_log_seq
                 => hist'.log_open = <<in, TRUE>>]_vars

\* C15 witness: should_log_open has returned true for a tracked inode with
\* an entry in the dirty set that was last journaled before the sequence
\* number of the last commit.
C15_Witness ==
  /\ Len(hist.log_open) = 2
  /\ hist.log_open[2]
  /\ TrackedAndDirty(hist.log_open[1])
  /\ last_journaled[hist.log_open[1]] > 0
  /\ last_journaled[hist.log_open[1]] < committing_log_seq

=============================================================================
